---------------------------- MODULE Spec2Model ----------------------------
(***************************************************************************)
(* ClipBox: the clipboard history of the front end (class ClipBox).        *)
(*                                                                         *)
(* The model follows the revision with favourites and the global shortcut  *)
(* (src/unnamed/part_001).  addToHistory, deleteItem, clearAllHistory and  *)
(* moveItemToTop are the same text in src/src/main.ts and in               *)
(* src/unnamed/part_000; those two revisions have no getFilteredItems.     *)
(*                                                                         *)
(* Contents are TLA+ strings, so trim, startsWith, includes and substring  *)
(* are computed on the characters as the JavaScript methods compute them.  *)
(***************************************************************************)
EXTENDS Integers, Sequences, FiniteSets, TLC

(***************************************************************************)
(* Bounds of the model.                                                    *)
(***************************************************************************)
\* private maxHistorySize = 100 in the source; the model runs the same code
\* with a small history so that eviction happens within the bounds.
maxHistorySize == 3
\* Date.now() is read from a clock that runs from 1 to MaxTime milliseconds.
MaxTime == 2
\* Calls of the back end (invoke) that are in flight at the same time.
MaxInFlight == 1
\* Reloads of the window (a new ClipBox on the persisted history).
MaxRestarts == 1
\* Calls in flight in the specification of racing calls.
MaxRacing == 2
\* saveShortcutKey() calls that have not returned yet.
MaxRebinds == 2
\* Runs of the shortcut callback that have not ended (cooldown included).
MaxInvocations == 2

(***************************************************************************)
(* Strings                                                                 *)
(***************************************************************************)
Min(a, b) == IF a < b THEN a ELSE b

\* White space as String.prototype.trim sees it (the captures of the model
\* use the space character only).
isWhiteSpace(c) == c = " "

RECURSIVE trimStart(_)
trimStart(s) ==
    IF Len(s) > 0 /\ isWhiteSpace(SubSeq(s, 1, 1))
    THEN trimStart(SubSeq(s, 2, Len(s)))
    ELSE s

RECURSIVE trimEnd(_)
trimEnd(s) ==
    IF Len(s) > 0 /\ isWhiteSpace(SubSeq(s, Len(s), Len(s)))
    THEN trimEnd(SubSeq(s, 1, Len(s) - 1))
    ELSE s

\* content.trim()
trim(s) == trimEnd(trimStart(s))

\* s.startsWith(p)
startsWith(s, p) == Len(s) >= Len(p) /\ SubSeq(s, 1, Len(p)) = p

\* s.includes(p)
includes(s, p) ==
    \E i \in 1..(Len(s) - Len(p) + 1) : SubSeq(s, i, i + Len(p) - 1) = p

\* s.substring(0, n)
substring0(s, n) == SubSeq(s, 1, Min(n, Len(s)))

\* The number of characters of an image that the duplicate check compares.
ImagePrefixLen == 200

RECURSIVE Repeat(_, _)
Repeat(s, n) == IF n = 0 THEN "" ELSE s \o Repeat(s, n - 1)

(***************************************************************************)
(* The captures delivered by the clipboard-changed event.                  *)
(***************************************************************************)
ImageHeader == "data:image/png;base64,"
\* Two images of 201 characters that differ in the last character only, and
\* one that differs from both within the first 200.
ImgA == ImageHeader \o Repeat("A", ImagePrefixLen - Len(ImageHeader)) \o "x"
ImgA2 == ImageHeader \o Repeat("A", ImagePrefixLen - Len(ImageHeader)) \o "y"
ImgB == ImageHeader \o "B"

\* Every capture of the model: empty, white space only, text with and without
\* white space around it, images.
Contents == {"", " ", "a", "a ", "b", ImgA, ImgA2, ImgB}
\* The captures of the specification with every handler.
TextContents == {" ", "a", "b"}
\* The captures of the specification with two calls in flight.
OneContent == {" ", "a"}
\* The captures of the specification of reloads.
ThreeContents == {"a", "b", "c"}
\* One capture more than the history holds.
FourContents == {"a", "b", "c", "d"}
\* An image, and the same image delivered with white space in front of it.
PaddedContents == {" ", "a", ImgB, " " \o ImgB}
AllContents ==
    Contents \cup TextContents \cup OneContent \cup ThreeContents
             \cup FourContents \cup PaddedContents

\* image_path of a text item (the property is left undefined).
undefined == "<undefined>"

(***************************************************************************)
(* ClipboardItem and the pure parts of the handlers                        *)
(***************************************************************************)
\* return content.startsWith('data:image/') && content.includes('base64,')
isBase64Image(content) ==
    startsWith(content, "data:image/") /\ includes(content, "base64,")

\* A variant that compares the whole content for images too.
isDuplicateOfWhole(content, item) == item.content = content

\* One turn of the loop of addToHistory: does the stored item stop the
\* capture?  The capture is compared as delivered; item.content is what was
\* stored (trimmed).
isDuplicateOf(content, item) ==
    IF isBase64Image(content) /\ isBase64Image(item.content)
    THEN substring0(content, ImagePrefixLen)
             = substring0(item.content, ImagePrefixLen)
    ELSE item.content = content

\* !content || content.trim() === ''
isEmptyCapture(content) == content = "" \/ trim(content) = ""

\* A variant that compares the capture with the newest item only.
isAcceptedAgainstFront(content, history) ==
    /\ ~isEmptyCapture(content)
    /\ history # <<>> => ~isDuplicateOf(content, history[1])

\* The whole guard of addToHistory: neither of the early returns is taken.
isAccepted(content, history) ==
    /\ ~isEmptyCapture(content)
    /\ \A i \in 1..Len(history) : ~isDuplicateOf(content, history[i])

\* const newItem: ClipboardItem = {...}; idNow and tsNow are the two reads
\* of Date.now().
newItem(content, idNow, tsNow) ==
    [id         |-> ToString(idNow),
     content    |-> trim(content),
     timestamp  |-> tsNow,
     item_type  |-> IF isBase64Image(content) THEN "image" ELSE "text",
     image_path |-> IF isBase64Image(content) THEN content ELSE undefined,
     is_favorite |-> FALSE]

\* A variant of slice that cuts nothing: with it in the place of slice0 the
\* history is no longer bounded.
sliceAll(history, n) == history

\* history.slice(0, n)
slice0(history, n) == SubSeq(history, 1, Min(n, Len(history)))

\* A variant without the cut at maxHistorySize: with it in the place of
\* unshiftAndLimit the bound of C1 is lost.
unshiftNoLimit(item, history) == <<item>> \o history

\* unshift(newItem), then the cut at maxHistorySize.
unshiftAndLimit(item, history) ==
    LET added == <<item>> \o history
    IN  IF Len(added) > maxHistorySize
        THEN slice0(added, maxHistorySize)
        ELSE added

\* findIndex(item => item.id === id): the first position, 0 when there is
\* none (positions of the model start at 1, so this is findIndex + 1).
findIndex(history, id) ==
    IF \E i \in 1..Len(history) : history[i].id = id
    THEN CHOOSE i \in 1..Len(history) :
             /\ history[i].id = id
             /\ \A j \in 1..(i - 1) : history[j].id # id
    ELSE 0

\* A variant that gives the item it moves a later timestamp.
spliceToFrontStamped(history, index) ==
    <<[history[index] EXCEPT !.timestamp = @ + 1]>>
        \o SubSeq(history, 1, index - 1)
        \o SubSeq(history, index + 1, Len(history))

\* splice(index, 1) and unshift(item)
spliceToFront(history, index) ==
    <<history[index]>> \o SubSeq(history, 1, index - 1)
                       \o SubSeq(history, index + 1, Len(history))

\* A variant that removes by position, splice(findIndex(...), 1), without a
\* test of the position: for an id that is not stored the last item goes.
filterOutIdBySplice(history, id) ==
    LET index == findIndex(history, id)
    IN  IF index = 0
        THEN SubSeq(history, 1, Len(history) - 1)
        ELSE SubSeq(history, 1, index - 1)
                 \o SubSeq(history, index + 1, Len(history))

\* filter(item => item.id !== id)
RECURSIVE filterOutId(_, _)
filterOutId(history, id) ==
    IF history = <<>> THEN <<>>
    ELSE IF Head(history).id = id
         THEN filterOutId(Tail(history), id)
         ELSE <<Head(history)>> \o filterOutId(Tail(history), id)

\* filter(item => item.is_favorite)
RECURSIVE filterFavorites(_)
filterFavorites(history) ==
    IF history = <<>> THEN <<>>
    ELSE IF Head(history).is_favorite
         THEN <<Head(history)>> \o filterFavorites(Tail(history))
         ELSE filterFavorites(Tail(history))

\* Array.prototype.sort((a, b) => b.timestamp - a.timestamp): a stable sort,
\* newest first; items of equal timestamp keep their order.
RECURSIVE insertByTimestamp(_, _)
insertByTimestamp(sorted, item) ==
    IF sorted = <<>> THEN <<item>>
    ELSE IF Head(sorted).timestamp >= item.timestamp
         THEN <<Head(sorted)>> \o insertByTimestamp(Tail(sorted), item)
         ELSE <<item>> \o sorted

RECURSIVE sortByTimestampDesc(_)
sortByTimestampDesc(history) ==
    IF history = <<>> THEN <<>>
    ELSE insertByTimestamp(
             sortByTimestampDesc(SubSeq(history, 1, Len(history) - 1)),
             history[Len(history)])

\* A variant whose favourites branch filters and does not sort: with it in
\* the place of getFilteredItems the order of C8 is lost.
getFilteredItemsUnsorted(history, filter) ==
    IF filter = "favorites"
    THEN filterFavorites(history)
    ELSE sortByTimestampDesc(history)

\* getFilteredItems(): the array it returns.
getFilteredItems(history, filter) ==
    IF filter = "favorites"
    THEN sortByTimestampDesc(filterFavorites(history))
    ELSE sortByTimestampDesc(history)

\* getFilteredItems(): this.clipboardHistory after the call.  filter() makes
\* a new array, so the favourites branch sorts a copy; the other branch
\* calls sort on this.clipboardHistory itself, and sort works in place.
historyAfterGetFilteredItems(history, filter) ==
    IF filter = "favorites"
    THEN history
    ELSE sortByTimestampDesc(history)

\* The data-id attributes of the .clipboard-item elements render() writes.
RenderedIds(items) == [i \in 1..Len(items) |-> items[i].id]

(***************************************************************************)
(* State                                                                   *)
(***************************************************************************)
VARIABLES
    clipboardHistory,  \* this.clipboardHistory
    currentFilter,     \* this.currentFilter
    rendered,          \* data-id of the items in #clipboard-list, in order
    pc,                \* where init() stands
    now,               \* Date.now()
    persisted,         \* the history the back end holds
    calls,             \* invoke() calls and their answers in flight
    restarts,          \* reloads so far
    lastOp,            \* the handler that ran last, and on what
    issued,            \* <<history>> of the save called last, <<>> before
    shortcutKey,       \* this.shortcutKey
    clipboxShortcut,   \* localStorage 'clipboxShortcut' ("" when absent)
    isListeningForShortcut,  \* this.isListeningForShortcut
    registered,        \* the keys the global-shortcut plugin holds
    rebinds,           \* the saveShortcutKey() calls in progress
    invocations,       \* the runs of the shortcut callbacks in progress
    lastRebind,        \* the saveShortcutKey() call that returned last
    osFailed,          \* a register or unregister call has failed
    unhandled,         \* a promise was rejected and nothing catches it
    selectedIndex,     \* src/main.ts: this.selectedIndex
    navItems           \* src/main.ts: the .clipboard-item elements

historyVars == <<clipboardHistory, currentFilter, rendered, now, persisted,
                 calls, lastOp, issued>>

\* What the handlers of the history leave alone: the state of the shortcut,
\* and unhandled.
hotkeyVars == <<shortcutKey, clipboxShortcut, isListeningForShortcut,
                registered, rebinds, invocations, lastRebind, osFailed,
                unhandled, selectedIndex, navItems>>

vars == <<clipboardHistory, currentFilter, rendered, pc, now, persisted,
          calls, restarts, lastOp, issued, shortcutKey, clipboxShortcut,
          isListeningForShortcut, registered, rebinds, invocations,
          lastRebind, osFailed, unhandled, selectedIndex, navItems>>

Filters == {"all", "favorites"}

\* A call in flight.  kind "save" and "toggle" wait for the back end; kind
\* "saved" and "toggled" are answers that wait for the awaiting handler.
\* resume names the handler that awaits the call ("none" when saveHistory()
\* is not awaited), id is the id the handler was called with.  was and prior
\* are kept for the properties: was is the flag of the item when
\* toggleFavorite was called, prior the flag it had before the toggleFavorite
\* of the same id that ended just before this one was called ("none" when
\* there was no such call).
Call(kind, id, history, resume, ok, value, was, prior) ==
    [kind |-> kind, id |-> id, history |-> history, resume |-> resume,
     ok |-> ok, value |-> value, was |-> was, prior |-> prior]

SaveCall(history, resume, id, was) ==
    Call("save", id, history, resume, TRUE, FALSE, was, "none")

\* The handler that ran last: its name, its argument, whether it took effect
\* and, for toggleFavorite, the flag the item had when it was called.
OpWas(op, arg, done, was) == [op |-> op, arg |-> arg, done |-> done, was |-> was]

Op(op, arg, done) == OpWas(op, arg, done, FALSE)

\* The history of the save called last, after a handler that has called
\* saveHistory() when called holds: the newest call is the last of calls.
issuedAfter(called) ==
    IF called THEN <<calls'[Len(calls')].history>> ELSE issued

RemoveAt(s, i) == SubSeq(s, 1, i - 1) \o SubSeq(s, i + 1, Len(s))

\* A variant in which the listeners are set before init() loads.
ListeningFromStart == TRUE

\* The event listeners exist once setupEventListeners() has run.
Listening == pc \in {"monitor", "ready"}

\* The handler of 'clipboard-changed' gets the captures: listen() was called
\* by setupEventListeners() and has not been rejected.
Subscribed == Listening /\ ~unhandled

\* A saveShortcutKey(key) call.  pc is where it stands; the other fields are
\* kept for the properties: origin is the handler that made the call, from
\* the value of this.shortcutKey when that handler began and fromBound
\* whether that key was registered then, old the key saveShortcutKey found
\* in this.shortcutKey, alone whether no other call was in
\* progress during this one, unregistered how the unregistering of the old
\* key went ("skipped", "ok", "failed"), registerOk how register(key) went.
Rebind(key, pc0, origin, from, fromBound, alone) ==
    [key |-> key, pc |-> pc0, origin |-> origin, from |-> from,
     fromBound |-> fromBound, alone |-> alone, old |-> "",
     unregistered |-> "skipped", registerOk |-> FALSE]

NoRebind == Rebind("", "none", "none", "", FALSE, FALSE)

Init ==
    /\ shortcutKey = ""
    /\ clipboxShortcut = ""
    /\ isListeningForShortcut = FALSE
    /\ registered = {}
    /\ rebinds = <<>>
    /\ invocations = <<>>
    /\ lastRebind = NoRebind
    /\ osFailed = FALSE
    /\ unhandled = FALSE
    /\ selectedIndex = 0
    /\ navItems = <<>>
    /\ clipboardHistory = <<>>
    /\ currentFilter = "all"
    /\ rendered = <<>>
    /\ pc = "loading"
    /\ now = 1
    /\ persisted = <<>>
    /\ calls = <<>>
    /\ restarts = 0
    /\ lastOp = Op("constructor", "", TRUE)
    /\ issued = <<>>

(***************************************************************************)
(* render(): getFilteredItems() and the new contents of #clipboard-list.   *)
(***************************************************************************)
render(history) ==
    /\ clipboardHistory' = historyAfterGetFilteredItems(history, currentFilter)
    /\ rendered' = RenderedIds(getFilteredItems(history, currentFilter))

(***************************************************************************)
(* init(): await loadHistory(), setupEventListeners(),                     *)
(* await startClipboardMonitoring(), render().                             *)
(***************************************************************************)
\* loadHistory() settles: the history of the back end, or [] when the call
\* fails or returns nothing.
\* A variant of loadHistory() that does not catch: init() ends there.
LoadHistoryRethrows(ok) ==
    /\ pc = "loading"
    /\ clipboardHistory' = IF ok THEN persisted ELSE <<>>
    /\ pc' = IF ok THEN "shortcut" ELSE "failed"
    /\ lastOp' = Op("loadHistory", "", ok)
    /\ UNCHANGED <<currentFilter, rendered, now, persisted, calls, restarts>>
    /\ UNCHANGED issued
    /\ UNCHANGED hotkeyVars

LoadHistory(ok) ==
    /\ pc = "loading"
    /\ clipboardHistory' = IF ok THEN persisted ELSE <<>>
    /\ pc' = "shortcut"
    /\ lastOp' = Op("loadHistory", "", ok)
    /\ UNCHANGED <<currentFilter, rendered, now, persisted, calls, restarts>>
    /\ UNCHANGED issued
    /\ UNCHANGED hotkeyVars

\* startClipboardMonitoring() settles and init() renders.
InitRender ==
    /\ pc = "monitor"
    /\ render(clipboardHistory)
    /\ pc' = "ready"
    /\ lastOp' = Op("init.render", "", TRUE)
    /\ UNCHANGED <<currentFilter, now, persisted, calls, restarts>>
    /\ UNCHANGED issued
    /\ UNCHANGED hotkeyVars

\* The application is started again: a new ClipBox, the calls of the old one
\* are lost and so are its registrations; localStorage stays.
Restart ==
    /\ restarts < MaxRestarts
    /\ shortcutKey' = ""
    /\ isListeningForShortcut' = FALSE
    /\ registered' = {}
    /\ rebinds' = <<>>
    /\ invocations' = <<>>
    /\ lastRebind' = NoRebind
    /\ osFailed' = FALSE
    /\ unhandled' = FALSE
    /\ UNCHANGED <<selectedIndex, navItems>>
    /\ UNCHANGED clipboxShortcut
    /\ restarts' = restarts + 1
    /\ clipboardHistory' = <<>>
    /\ currentFilter' = "all"
    /\ rendered' = <<>>
    /\ pc' = "loading"
    /\ calls' = <<>>
    /\ lastOp' = Op("constructor", "", TRUE)
    /\ issued' = <<>>
    /\ UNCHANGED <<now, persisted>>

\* The promise of listen('clipboard-changed', ...) is rejected.  The call in
\* setupEventListeners() is neither awaited nor followed by a catch, so the
\* rejection is handled by nothing; no capture is delivered then.
listenRejected ==
    /\ pc = "monitor"
    /\ lastOp.op = "loadHistory"
    /\ ~unhandled
    /\ unhandled' = TRUE
    /\ UNCHANGED <<historyVars, pc, restarts, shortcutKey, clipboxShortcut,
                   isListeningForShortcut, registered, rebinds, invocations,
                   lastRebind, osFailed, selectedIndex, navItems>>

\* A millisecond passes.
Tick ==
    /\ now < MaxTime
    /\ now' = now + 1
    /\ UNCHANGED <<clipboardHistory, currentFilter, rendered, pc, persisted,
                   calls, restarts, lastOp>>
    /\ UNCHANGED issued
    /\ UNCHANGED hotkeyVars

(***************************************************************************)
(* listen('clipboard-changed', ...) -> addToHistory(content)               *)
(***************************************************************************)
\* dt: the milliseconds between the two reads of Date.now() in newItem.
addToHistory(content, dt) ==
    /\ Subscribed
    /\ IF isAccepted(content, clipboardHistory)
       THEN /\ now + dt <= MaxTime
            /\ LET added == unshiftAndLimit(newItem(content, now, now + dt),
                                            clipboardHistory)
               IN  /\ calls' = Append(calls, SaveCall(added, "none", "", FALSE))
                   /\ render(added)
            /\ now' = now + dt
            /\ lastOp' = Op("addToHistory", content, TRUE)
       ELSE /\ dt = 0
            /\ lastOp' = Op("addToHistory", content, FALSE)
            /\ UNCHANGED <<clipboardHistory, rendered, calls, now>>
    /\ UNCHANGED <<currentFilter, pc, persisted, restarts>>
    /\ issued' = issuedAfter(isAccepted(content, clipboardHistory))
    /\ UNCHANGED hotkeyVars

(***************************************************************************)
(* Click on an item: the clipboard is written (outside the model) and      *)
(* moveItemToTop(id) runs, when find() gets an item for the data-id.       *)
(***************************************************************************)
moveItemToTop(id) ==
    LET index == findIndex(clipboardHistory, id)
    IN  IF index > 1    \* index > 0 in the source, whose positions start at 0
        THEN /\ LET moved == spliceToFront(clipboardHistory, index)
                IN  /\ calls' = Append(calls, SaveCall(moved, "none", "", FALSE))
                    /\ render(moved)
             /\ lastOp' = Op("moveItemToTop", id, TRUE)
        ELSE /\ lastOp' = Op("moveItemToTop", id, FALSE)
             /\ UNCHANGED <<clipboardHistory, rendered, calls>>

ItemClick(id) ==
    /\ Listening
    /\ \E i \in 1..Len(rendered) : rendered[i] = id
    /\ IF findIndex(clipboardHistory, id) > 0
       THEN moveItemToTop(id)
       ELSE /\ lastOp' = Op("itemClick", id, FALSE)
            /\ UNCHANGED <<clipboardHistory, rendered, calls>>
    /\ UNCHANGED <<currentFilter, pc, now, persisted, restarts>>
    /\ issued' = issuedAfter(findIndex(clipboardHistory, id) > 1)
    /\ UNCHANGED hotkeyVars

(***************************************************************************)
(* deleteItem(id): filter, await saveHistory(), render().                  *)
(***************************************************************************)
deleteItem(id) ==
    /\ Listening
    /\ \E i \in 1..Len(rendered) : rendered[i] = id
    /\ clipboardHistory' = filterOutId(clipboardHistory, id)
    /\ calls' = Append(calls,
                       SaveCall(clipboardHistory', "deleteItem", id, FALSE))
    /\ lastOp' = Op("deleteItem", id, findIndex(clipboardHistory, id) > 0)
    /\ UNCHANGED <<currentFilter, rendered, pc, now, persisted, restarts>>
    /\ issued' = issuedAfter(TRUE)
    /\ UNCHANGED hotkeyVars

(***************************************************************************)
(* clearAllHistory(): confirmed is the answer of confirm(), or of the      *)
(* modal of showCustomConfirm when confirm() gave none.                    *)
(***************************************************************************)
\* A variant that keeps the favourites when the history is cleared.
clearedButFavorites(history) == filterFavorites(history)

\* this.clipboardHistory = []
cleared(history) == <<>>

clearAllHistory(confirmed) ==
    /\ Listening
    /\ IF confirmed
       THEN /\ clipboardHistory' = cleared(clipboardHistory)
            /\ calls' = Append(calls,
                               SaveCall(clipboardHistory', "clearAllHistory",
                                        "", FALSE))
       ELSE UNCHANGED <<clipboardHistory, calls>>
    /\ lastOp' = Op("clearAllHistory", "", confirmed)
    /\ UNCHANGED <<currentFilter, rendered, pc, now, persisted, restarts>>
    /\ issued' = issuedAfter(confirmed)
    /\ UNCHANGED hotkeyVars

(***************************************************************************)
(* setFilter(filter): the filter changes and render() runs.                *)
(***************************************************************************)
setFilter(filter) ==
    /\ Listening
    /\ currentFilter' = filter
    /\ clipboardHistory' = historyAfterGetFilteredItems(clipboardHistory, filter)
    /\ rendered' = RenderedIds(getFilteredItems(clipboardHistory, filter))
    /\ lastOp' = Op("setFilter", filter, TRUE)
    /\ UNCHANGED <<pc, now, persisted, calls, restarts>>
    /\ UNCHANGED issued
    /\ UNCHANGED hotkeyVars

(***************************************************************************)
(* toggleFavorite(id): await invoke('toggle_favorite_item'), then the      *)
(* answer is written to the item, await saveHistory(), render().           *)
(***************************************************************************)
\* is_favorite of the item find() gets for id; FALSE when there is none.
favoriteOf(history, id) ==
    LET index == findIndex(history, id)
    IN  IF index > 0 THEN history[index].is_favorite ELSE FALSE

\* The click: the call leaves.
toggleFavorite(id) ==
    /\ Listening
    /\ \E i \in 1..Len(rendered) : rendered[i] = id
    /\ calls' = Append(calls,
           Call("toggle", id, <<>>, "toggleFavorite", TRUE, FALSE,
                favoriteOf(clipboardHistory, id),
                IF lastOp.op = "toggleFavorite.done" /\ lastOp.arg = id
                THEN IF lastOp.was THEN "T" ELSE "F"
                ELSE "none"))
    /\ lastOp' = Op("toggleFavorite", id, findIndex(clipboardHistory, id) > 0)
    /\ UNCHANGED <<clipboardHistory, currentFilter, rendered, pc, now,
                   persisted, restarts>>
    /\ UNCHANGED issued
    /\ UNCHANGED hotkeyVars

\* item.is_favorite = newFavoriteState, for the item find() gets.
setFavorite(history, id, value) ==
    LET index == findIndex(history, id)
    IN  IF index > 0
        THEN [history EXCEPT ![index].is_favorite = value]
        ELSE history

\* The answer arrives.  A rejected call goes to the catch block; otherwise
\* the answer is written and saveHistory() is awaited.
toggleFavoriteResume(i) ==
    /\ i \in 1..Len(calls)
    /\ calls[i].kind = "toggled"
    /\ IF calls[i].ok
       THEN /\ clipboardHistory' =
                   setFavorite(clipboardHistory, calls[i].id, calls[i].value)
            /\ calls' = Append(RemoveAt(calls, i),
                               SaveCall(clipboardHistory', "toggleFavorite",
                                        calls[i].id, calls[i].was))
            /\ lastOp' = OpWas("toggleFavorite.resume", calls[i].id, TRUE,
                               calls[i].was)
       ELSE /\ calls' = RemoveAt(calls, i)
            /\ lastOp' = OpWas("toggleFavorite.done", calls[i].id, FALSE,
                               calls[i].was)
            /\ UNCHANGED clipboardHistory
    /\ UNCHANGED <<currentFilter, rendered, pc, now, persisted, restarts>>
    /\ issued' = issuedAfter(calls[i].ok)
    /\ UNCHANGED hotkeyVars

\* A variant that goes back to the history last written when a save fails.
saveHistoryRollback(history, written) == written

\* saveHistory(): catch (error) { console.error(...) }, the history is left
\* as it is.
saveHistoryCatch(history, written) == history

\* await this.saveHistory() settles (saveHistory catches a failed save) and
\* the handler goes on to render().
saveHistoryResume(i) ==
    /\ i \in 1..Len(calls)
    /\ calls[i].kind = "saved"
    /\ calls' = RemoveAt(calls, i)
    /\ render(clipboardHistory)
    /\ lastOp' = OpWas(calls[i].resume \o ".done", calls[i].id, TRUE,
                       calls[i].was)
    /\ UNCHANGED <<currentFilter, pc, now, persisted, restarts>>
    /\ UNCHANGED issued
    /\ UNCHANGED hotkeyVars

(***************************************************************************)
(* The back end (src-tauri, not among the sources): it holds one history,  *)
(* save_clipboard_history replaces it, toggle_favorite_item flips the flag  *)
(* of the item with the id and answers the new flag, and rejects an id it  *)
(* does not hold.  Calls are served in any order, and a save may fail.     *)
(***************************************************************************)
backendSave(i, ok) ==
    /\ i \in 1..Len(calls)
    /\ calls[i].kind = "save"
    /\ persisted' = IF ok THEN calls[i].history ELSE persisted
    /\ calls' = IF calls[i].resume # "none"
                THEN [calls EXCEPT ![i].kind = "saved", ![i].ok = ok,
                                   ![i].history = <<>>]
                ELSE RemoveAt(calls, i)
    /\ clipboardHistory' = IF ok THEN clipboardHistory
                           ELSE saveHistoryCatch(clipboardHistory, persisted)
    /\ UNCHANGED <<currentFilter, rendered, pc, now, restarts, lastOp>>
    /\ UNCHANGED issued
    /\ UNCHANGED hotkeyVars

backendToggleFavorite(i) ==
    /\ i \in 1..Len(calls)
    /\ calls[i].kind = "toggle"
    /\ LET index == findIndex(persisted, calls[i].id)
       IN  IF index > 0
           THEN /\ persisted' = [persisted EXCEPT ![index].is_favorite =
                                     ~persisted[index].is_favorite]
                /\ calls' = [calls EXCEPT ![i].kind = "toggled", ![i].ok = TRUE,
                                 ![i].value = ~persisted[index].is_favorite]
           ELSE /\ calls' = [calls EXCEPT ![i].kind = "toggled",
                                          ![i].ok = FALSE]
                /\ UNCHANGED persisted
    /\ UNCHANGED <<clipboardHistory, currentFilter, rendered, pc, now,
                   restarts, lastOp>>
    /\ UNCHANGED issued
    /\ UNCHANGED hotkeyVars

(***************************************************************************)
(* The global shortcut: strings                                            *)
(***************************************************************************)
\* String.prototype.indexOf, positions from 1, 0 when p is not in s.
indexOf(s, p) ==
    LET at == {i \in 1..(Len(s) - Len(p) + 1) : SubSeq(s, i, i + Len(p) - 1) = p}
    IN  IF at = {} THEN 0 ELSE CHOOSE i \in at : \A j \in at : i <= j

\* s.replace(a, b) with a string pattern: the first occurrence only.
replace(s, a, b) ==
    LET i == indexOf(s, a)
    IN  IF i = 0
        THEN s
        ELSE SubSeq(s, 1, i - 1) \o b \o SubSeq(s, i + Len(a), Len(s))

\* key.replace('Meta', 'Cmd')
fixMeta(key) == replace(key, "Meta", "Cmd")

\* What platform() answers; PlatformFails stands for a call that is rejected.
PlatformFails == "<rejected>"
Platforms == {"macos", "windows", "linux", PlatformFails}

\* A variant with one default for every platform.
getDefaultShortcutKeyOfMac(currentPlatform) == "Cmd+Control+v"

\* getDefaultShortcutKey(), for the answer of platform().
getDefaultShortcutKey(currentPlatform) ==
    IF currentPlatform = PlatformFails
    THEN "Cmd+Control+v"
    ELSE IF currentPlatform = "macos" THEN "Cmd+Control+v" ELSE "Ctrl+Alt+v"

\* getDefaultShortcutKey() where platform() answers 'macos' or fails.
DefaultKey == "Cmd+Control+v"

\* e.key.toLowerCase(), for the keys of KeyEvents.
toLowerCase(key) ==
    CASE key = "C" -> "c"
      [] key = "V" -> "v"
      [] OTHER -> key

RECURSIVE join(_, _)
join(parts, sep) ==
    IF Len(parts) = 0 THEN ""
    ELSE IF Len(parts) = 1 THEN parts[1]
    ELSE parts[1] \o sep \o join(Tail(parts), sep)

\* handleKeyDownForShortcut: the modifiers of the event.
modifiersOf(e) ==
    (IF e.metaKey THEN <<"Cmd">> ELSE <<>>)
        \o (IF e.ctrlKey THEN <<"Control">> ELSE <<>>)
        \o (IF e.shiftKey THEN <<"Shift">> ELSE <<>>)
        \o (IF e.altKey THEN <<"Alt">> ELSE <<>>)

\* handleKeyDownForShortcut: at least one modifier and a key that is none.
isShortcutEvent(e) ==
    /\ Len(modifiersOf(e)) > 0
    /\ e.key \notin {"Meta", "Control", "Shift", "Alt"}

\* handleKeyDownForShortcut: newShortcut.
shortcutOf(e) == join(modifiersOf(e) \o <<toLowerCase(e.key)>>, "+")

KeyEvent(metaKey, ctrlKey, shiftKey, altKey, key) ==
    [metaKey |-> metaKey, ctrlKey |-> ctrlKey, shiftKey |-> shiftKey,
     altKey |-> altKey, key |-> key]

\* The keydown events of the model: Cmd+Control+V (the default shortcut),
\* Cmd+Control+C, Shift alone, and c without a modifier.
KeyEvents ==
    {KeyEvent(TRUE, TRUE, FALSE, FALSE, "V"),
     KeyEvent(TRUE, TRUE, FALSE, FALSE, "c"),
     KeyEvent(FALSE, FALSE, TRUE, FALSE, "Shift"),
     KeyEvent(FALSE, FALSE, FALSE, FALSE, "c")}

\* The shortcuts the model can register.
Keys ==
    {DefaultKey} \cup {getDefaultShortcutKey(p) : p \in Platforms}
                 \cup {shortcutOf(e) : e \in {x \in KeyEvents : isShortcutEvent(x)}}

(***************************************************************************)
(* The global shortcut: register and unregister of the plugin              *)
(***************************************************************************)
\* unregister(key) took effect: the callback registered for key gets no more
\* triggers, so its runs in progress are no longer those of the callback in
\* place.
dropCallback(runs, key) ==
    [j \in 1..Len(runs) |->
        IF runs[j].key = key THEN [runs[j] EXCEPT !.current = FALSE]
        ELSE runs[j]]

\* register(key, callback) succeeds when the system grants it and the key is
\* not held already.
registerSucceeds(key, ok) == ok /\ key \notin registered

\* The code of the shortcut reads and writes nothing of the history.
UnchangedByHotkey ==
    UNCHANGED <<historyVars, restarts, unhandled, selectedIndex, navItems>>

(***************************************************************************)
(* init(): this.shortcutKey = await loadShortcutKey(), then                *)
(* setupEventListeners().  No callback is registered before, so the        *)
(* unregister(key) that registerGlobalShortcut begins with changes nothing.*)
(***************************************************************************)
\* loadShortcutKey() where platform() answers currentPlatform when it is
\* asked: the saved key or the default is registered and returned.
LoadShortcutKeyOn(currentPlatform, ok) ==
    /\ pc = "shortcut"
    /\ LET key == IF clipboxShortcut # ""
                  THEN fixMeta(clipboxShortcut)
                  ELSE getDefaultShortcutKey(currentPlatform)
       IN  /\ registered' = IF registerSucceeds(key, ok)
                            THEN registered \cup {key}
                            ELSE registered
           /\ osFailed' = (osFailed \/ ~registerSucceeds(key, ok))
           /\ shortcutKey' = key
    /\ pc' = "monitor"
    /\ UNCHANGED <<clipboxShortcut, isListeningForShortcut, rebinds,
                   invocations, lastRebind>>
    /\ UnchangedByHotkey

\* loadShortcutKey() on macOS.
LoadShortcutKey(ok) == LoadShortcutKeyOn("macos", ok)

(***************************************************************************)
(* saveShortcutKey(key), from its call to its first await.  current is     *)
(* this.shortcutKey when it is called.                                     *)
(***************************************************************************)
saveShortcutKey(key, current, origin, from) ==
    LET others == [j \in 1..Len(rebinds) |-> [rebinds[j] EXCEPT !.alone = FALSE]]
        call   == Rebind(key, "none", origin, from, from \in registered,
                         rebinds = <<>>)
    IN  IF current # "" /\ current # key
        THEN \* await this.unregisterGlobalShortcut(this.shortcutKey)
             /\ rebinds' = Append(others,
                               [call EXCEPT !.pc = "unregisterOld",
                                            !.old = current])
             /\ UNCHANGED clipboxShortcut
        ELSE \* localStorage.setItem, registerGlobalShortcut: unregister(key)
             /\ rebinds' = Append(others,
                               [call EXCEPT !.pc = "unregister",
                                            !.old = current])
             /\ clipboxShortcut' = fixMeta(key)

\* setShortcutBtn is clicked; it is disabled while the page listens.
startListeningForShortcut ==
    /\ Listening
    /\ ~isListeningForShortcut
    /\ isListeningForShortcut' = TRUE
    /\ UNCHANGED <<shortcutKey, clipboxShortcut, registered, rebinds,
                   invocations, lastRebind, osFailed, pc>>
    /\ UnchangedByHotkey

\* The dialog is closed: hideShortcutModal() calls stopListeningForShortcut().
hideShortcutModal ==
    /\ Listening
    /\ isListeningForShortcut
    /\ isListeningForShortcut' = FALSE
    /\ UNCHANGED <<shortcutKey, clipboxShortcut, registered, rebinds,
                   invocations, lastRebind, osFailed, pc>>
    /\ UnchangedByHotkey

\* keydown while the page listens.
handleKeyDownForShortcut(e) ==
    /\ Listening
    /\ isListeningForShortcut
    /\ IF isShortcutEvent(e)
       THEN saveShortcutKey(shortcutOf(e), shortcutKey, "capture", shortcutKey)
       ELSE UNCHANGED <<rebinds, clipboxShortcut>>
    /\ UNCHANGED <<shortcutKey, isListeningForShortcut, registered,
                   invocations, lastRebind, osFailed, pc>>
    /\ UnchangedByHotkey

\* resetShortcutBtn is clicked and getDefaultShortcutKey() has answered:
\* this.shortcutKey is set first, saveShortcutKey(this.shortcutKey) follows.
resetShortcutToDefault ==
    /\ Listening
    /\ shortcutKey' = DefaultKey
    /\ saveShortcutKey(DefaultKey, DefaultKey, "reset", shortcutKey)
    /\ UNCHANGED <<isListeningForShortcut, registered, invocations,
                   lastRebind, osFailed, pc>>
    /\ UnchangedByHotkey

(***************************************************************************)
(* saveShortcutKey(key), after each of its awaits.  ok is the answer of    *)
(* the plugin.                                                             *)
(***************************************************************************)
\* unregister(old) is answered; unregisterGlobalShortcut logs a failure and
\* returns, and the wait of 100 ms begins.
unregisterOldSettles(i, ok) ==
    /\ rebinds[i].pc = "unregisterOld"
    /\ registered' = IF ok THEN registered \ {rebinds[i].old} ELSE registered
    /\ invocations' = IF ok THEN dropCallback(invocations, rebinds[i].old)
                      ELSE invocations
    /\ osFailed' = (osFailed \/ ~ok)
    /\ rebinds' = [rebinds EXCEPT ![i].pc = "delay",
                       ![i].unregistered = IF ok THEN "ok" ELSE "failed"]
    /\ UNCHANGED <<shortcutKey, clipboxShortcut, isListeningForShortcut,
                   lastRebind, pc>>
    /\ UnchangedByHotkey

\* The 100 ms are over: localStorage.setItem('clipboxShortcut', fixedKey),
\* and registerGlobalShortcut(fixedKey) calls unregister(fixedKey).
delayEnds(i) ==
    /\ rebinds[i].pc = "delay"
    /\ clipboxShortcut' = fixMeta(rebinds[i].key)
    /\ rebinds' = [rebinds EXCEPT ![i].pc = "unregister"]
    /\ UNCHANGED <<shortcutKey, isListeningForShortcut, registered,
                   invocations, lastRebind, osFailed, pc>>
    /\ UnchangedByHotkey

\* registerGlobalShortcut: unregister(key) is answered, a failure is ignored,
\* and register(key, callback) is called.
unregisterSettles(i, ok) ==
    /\ rebinds[i].pc = "unregister"
    /\ LET key == fixMeta(rebinds[i].key)
       IN  /\ registered' = IF ok THEN registered \ {key} ELSE registered
           /\ invocations' = IF ok THEN dropCallback(invocations, key)
                             ELSE invocations
    /\ osFailed' = (osFailed \/ ~ok)
    /\ rebinds' = [rebinds EXCEPT ![i].pc = "register"]
    /\ UNCHANGED <<shortcutKey, clipboxShortcut, isListeningForShortcut,
                   lastRebind, pc>>
    /\ UnchangedByHotkey

\* registerGlobalShortcut: register(key, callback) is answered; a failure is
\* logged and registerGlobalShortcut returns as it does after a success.
registerSettles(i, ok) ==
    /\ rebinds[i].pc = "register"
    /\ LET key == fixMeta(rebinds[i].key)
       IN  /\ registered' = IF registerSucceeds(key, ok)
                            THEN registered \cup {key}
                            ELSE registered
           /\ osFailed' = (osFailed \/ ~registerSucceeds(key, ok))
           /\ rebinds' = [rebinds EXCEPT ![i].pc = "return",
                              ![i].registerOk = registerSucceeds(key, ok)]
    /\ UNCHANGED <<shortcutKey, clipboxShortcut, isListeningForShortcut,
                   invocations, lastRebind, pc>>
    /\ UnchangedByHotkey

\* saveShortcutKey goes on after await this.registerGlobalShortcut(fixedKey):
\* this.shortcutKey = fixedKey, and it returns undefined.  The handler of
\* keydown then sets this.shortcutKey = newShortcut and stops listening;
\* resetShortcutToDefault only logs.
saveShortcutKeyReturns(i) ==
    /\ rebinds[i].pc = "return"
    /\ IF rebinds[i].origin = "capture"
       THEN /\ shortcutKey' = rebinds[i].key
            /\ isListeningForShortcut' = FALSE
       ELSE /\ shortcutKey' = fixMeta(rebinds[i].key)
            /\ UNCHANGED isListeningForShortcut
    /\ lastRebind' = [rebinds[i] EXCEPT !.pc = "returned"]
    /\ rebinds' = RemoveAt(rebinds, i)
    /\ UNCHANGED <<clipboxShortcut, registered, invocations, osFailed, pc>>
    /\ UnchangedByHotkey

(***************************************************************************)
(* The callback given to register(key, ...).  A run is [key, current, st]: *)
(* current says that the run is one of the callback now registered for key *)
(* (its isShortcutProcessing is the flag a trigger of key reads), st is    *)
(* "toggling" while toggle_window_visibility is awaited and "cooldown"     *)
(* while the timer of 300 ms runs.                                         *)
(***************************************************************************)
isShortcutProcessing(key) ==
    \E j \in 1..Len(invocations) :
        invocations[j].key = key /\ invocations[j].current

\* The system delivers a trigger of a registered key.
shortcutTriggered(key) ==
    /\ key \in registered
    /\ IF isShortcutProcessing(key)
       THEN UNCHANGED invocations
       ELSE invocations' = Append(invocations,
                [key |-> key, current |-> TRUE, st |-> "toggling"])
    /\ UNCHANGED <<shortcutKey, clipboxShortcut, isListeningForShortcut,
                   registered, rebinds, lastRebind, osFailed, pc>>
    /\ UnchangedByHotkey

\* A variant in which the callback ends after toggleAppVisibility() without
\* setting the timer and without clearing isShortcutProcessing.
toggleAppVisibilityNoTimer(j) ==
    /\ invocations[j].st = "toggling"
    /\ invocations' = [invocations EXCEPT ![j].st = "ended"]
    /\ UNCHANGED <<shortcutKey, clipboxShortcut, isListeningForShortcut,
                   registered, rebinds, lastRebind, osFailed, pc>>
    /\ UnchangedByHotkey

\* toggleAppVisibility() returns (it catches a failure of the call itself)
\* and the timer is set.
toggleAppVisibilityReturns(j) ==
    /\ invocations[j].st = "toggling"
    /\ invocations' = [invocations EXCEPT ![j].st = "cooldown"]
    /\ UNCHANGED <<shortcutKey, clipboxShortcut, isListeningForShortcut,
                   registered, rebinds, lastRebind, osFailed, pc>>
    /\ UnchangedByHotkey

\* The timer fires: isShortcutProcessing = false.
cooldownEnds(j) ==
    /\ invocations[j].st = "cooldown"
    /\ invocations' = RemoveAt(invocations, j)
    /\ UNCHANGED <<shortcutKey, clipboxShortcut, isListeningForShortcut,
                   registered, rebinds, lastRebind, osFailed, pc>>
    /\ UnchangedByHotkey

(***************************************************************************)
(* The revision with the keyboard (src/src/main.ts).  Its render() makes   *)
(* one .clipboard-item for each item of this.clipboardHistory, in order,   *)
(* so navItems stands for both: id and content of the item, and display,   *)
(* whether the element is shown (style.display is not 'none').  A handler  *)
(* that awaits saveHistory() before it renders is taken with its render(). *)
(***************************************************************************)
\* The searches typed into #search-input.
Queries == {"", "a", "b"}
\* The captures of this revision.
NavContents == {" ", "a", "b", "ab"}
\* The digit keys of the model: '1' up to one more than the list can hold.
Digits == 1..(maxHistorySize + 1)

Max(a, b) == IF a > b THEN a ELSE b

\* getVisibleItems()
getVisibleItems(items) == SelectSeq(items, LAMBDA x : x.display)

\* render(): the list is built again, every element is shown.
navRender(history) ==
    [k \in 1..Len(history) |-> [history[k] EXCEPT !.display = TRUE]]

\* filterHistory(query): an element is shown when its text includes query.
filterHistory(items, query) ==
    [k \in 1..Len(items) |->
        [items[k] EXCEPT !.display = includes(items[k].content, query)]]

\* What the handlers of this revision leave alone.
navUnchanged ==
    UNCHANGED <<historyVars, pc, restarts, shortcutKey, clipboxShortcut,
                isListeningForShortcut, registered, rebinds, invocations,
                lastRebind, osFailed, unhandled>>

\* 'clipboard-changed': addToHistory(content), which ends with render().
navAddToHistory(content) ==
    /\ navItems' =
           IF isAccepted(content, navItems)
           THEN navRender(unshiftAndLimit([id |-> ToString(now),
                                           content |-> trim(content),
                                           display |-> TRUE], navItems))
           ELSE navItems
    /\ UNCHANGED selectedIndex
    /\ navUnchanged

\* The delete button of an element that is shown: deleteItem(id).
navDeleteItem(id) ==
    /\ \E k \in 1..Len(navItems) : navItems[k].id = id /\ navItems[k].display
    /\ navItems' = navRender(filterOutId(navItems, id))
    /\ UNCHANGED selectedIndex
    /\ navUnchanged

\* clearAllHistory(), confirmed.
navClearAllHistory ==
    /\ navItems' = <<>>
    /\ UNCHANGED selectedIndex
    /\ navUnchanged

\* 'input' of #search-input: filterHistory(query), this.selectedIndex = 0.
navSearch(query) ==
    /\ navItems' = filterHistory(navItems, query)
    /\ selectedIndex' = 0
    /\ navUnchanged

\* copySelectedItem(): moveItemToTop(id) of the shown element at
\* selectedIndex, which renders when it moves the item.
copySelectedItem(index) ==
    LET visibleItems == getVisibleItems(navItems)
    IN  IF index + 1 <= Len(visibleItems)
        THEN LET at == findIndex(navItems, visibleItems[index + 1].id)
             IN  IF at > 1
                 THEN navRender(spliceToFront(navItems, at))
                 ELSE navItems
        ELSE navItems

\* handleKeyboardNavigation(e) for the keys it knows; it returns at once
\* when no element is shown.
navArrowDown ==
    /\ Len(getVisibleItems(navItems)) > 0
    /\ selectedIndex' = Min(selectedIndex + 1, Len(getVisibleItems(navItems)) - 1)
    /\ UNCHANGED navItems
    /\ navUnchanged

navArrowUp ==
    /\ Len(getVisibleItems(navItems)) > 0
    /\ selectedIndex' = Max(selectedIndex - 1, 0)
    /\ UNCHANGED navItems
    /\ navUnchanged

navEnter ==
    /\ Len(getVisibleItems(navItems)) > 0
    /\ navItems' = copySelectedItem(selectedIndex)
    /\ UNCHANGED selectedIndex
    /\ navUnchanged

navDigit(digit) ==
    /\ Len(getVisibleItems(navItems)) > 0
    /\ IF digit - 1 < Len(getVisibleItems(navItems))
       THEN /\ selectedIndex' = digit - 1
            /\ navItems' = copySelectedItem(digit - 1)
       ELSE UNCHANGED <<selectedIndex, navItems>>
    /\ navUnchanged

(***************************************************************************)
(* The clipboard (the system and src-tauri, not among the sources): when   *)
(* an item has been copied, the capture that follows delivers the content  *)
(* of that item.                                                            *)
(***************************************************************************)
captureOfCopy(item) == item.content

(***************************************************************************)
(* Specifications                                                          *)
(***************************************************************************)
\* The ids a click can carry: those in #clipboard-list.
RenderedIdSet == {rendered[i] : i \in 1..Len(rendered)}

\* A handler that calls the back end runs while fewer than cap calls are in
\* flight (a bound of the model, not of the program).
CanCall(cap) == Len(calls) < cap

\* Every handler, text captures, one call in flight at a time.
Next ==
    \/ \E ok \in BOOLEAN : LoadHistory(ok)
    \/ LoadShortcutKey(TRUE)
    \/ InitRender
    \/ Restart
    \/ Tick
    \/ CanCall(MaxInFlight) /\ \E content \in TextContents : addToHistory(content, 0)
    \/ CanCall(MaxInFlight) /\ \E id \in RenderedIdSet : ItemClick(id)
    \/ CanCall(MaxInFlight) /\ \E id \in RenderedIdSet : deleteItem(id)
    \/ CanCall(MaxInFlight) /\ \E confirmed \in BOOLEAN : clearAllHistory(confirmed)
    \/ \E filter \in Filters : setFilter(filter)
    \/ CanCall(MaxInFlight) /\ \E id \in RenderedIdSet : toggleFavorite(id)
    \/ \E i \in 1..Len(calls) : toggleFavoriteResume(i)
    \/ \E i \in 1..Len(calls) : saveHistoryResume(i)
    \/ \E i \in 1..Len(calls), ok \in BOOLEAN : backendSave(i, ok)
    \/ \E i \in 1..Len(calls) : backendToggleFavorite(i)

Spec == Init /\ [][Next]_vars

\* Captures only, from the first start: every capture of Contents, and the
\* clock may move between the two reads of Date.now().  Nothing reads the
\* history of the back end after the first load here, so the saves succeed.
NextIngest ==
    \/ \E ok \in BOOLEAN : LoadHistory(ok)
    \/ LoadShortcutKey(TRUE)
    \/ InitRender
    \/ Tick
    \/ CanCall(MaxInFlight) /\ \E content \in Contents, dt \in {0, 1} :
           addToHistory(content, dt)
    \/ \E i \in 1..Len(calls) : backendSave(i, TRUE)

SpecIngest == Init /\ [][NextIngest]_vars

\* Every handler with MaxRacing calls in flight, one text capture.
NextRace ==
    \/ \E ok \in BOOLEAN : LoadHistory(ok)
    \/ LoadShortcutKey(TRUE)
    \/ InitRender
    \/ Restart
    \/ Tick
    \/ CanCall(MaxRacing) /\ \E content \in OneContent : addToHistory(content, 0)
    \/ CanCall(MaxRacing) /\ \E id \in RenderedIdSet : ItemClick(id)
    \/ CanCall(MaxRacing) /\ \E id \in RenderedIdSet : deleteItem(id)
    \/ CanCall(MaxRacing) /\ \E confirmed \in BOOLEAN : clearAllHistory(confirmed)
    \/ \E filter \in Filters : setFilter(filter)
    \/ CanCall(MaxRacing) /\ \E id \in RenderedIdSet : toggleFavorite(id)
    \/ \E i \in 1..Len(calls) : toggleFavoriteResume(i)
    \/ \E i \in 1..Len(calls) : saveHistoryResume(i)
    \/ \E i \in 1..Len(calls), ok \in BOOLEAN : backendSave(i, ok)
    \/ \E i \in 1..Len(calls) : backendToggleFavorite(i)

SpecRace == Init /\ [][NextRace]_vars

\* Captures, clicks on items and reloads, three text captures.
NextReload ==
    \/ \E ok \in BOOLEAN : LoadHistory(ok)
    \/ LoadShortcutKey(TRUE)
    \/ InitRender
    \/ Restart
    \/ Tick
    \/ CanCall(MaxInFlight) /\ \E content \in ThreeContents : addToHistory(content, 0)
    \/ CanCall(MaxInFlight) /\ \E id \in RenderedIdSet : ItemClick(id)
    \/ \E i \in 1..Len(calls), ok \in BOOLEAN : backendSave(i, ok)

SpecReload == Init /\ [][NextReload]_vars

\* Every handler and the reloads, with more captures than the history holds;
\* the back end writes every save.
NextFull ==
    \/ \E ok \in BOOLEAN : LoadHistory(ok)
    \/ LoadShortcutKey(TRUE)
    \/ InitRender
    \/ Restart
    \/ Tick
    \/ CanCall(MaxInFlight) /\ \E content \in FourContents : addToHistory(content, 0)
    \/ CanCall(MaxInFlight) /\ \E id \in RenderedIdSet : ItemClick(id)
    \/ CanCall(MaxInFlight) /\ \E id \in RenderedIdSet : deleteItem(id)
    \/ CanCall(MaxInFlight) /\ \E confirmed \in BOOLEAN : clearAllHistory(confirmed)
    \/ \E filter \in Filters : setFilter(filter)
    \/ CanCall(MaxInFlight) /\ \E id \in RenderedIdSet : toggleFavorite(id)
    \/ \E i \in 1..Len(calls) : toggleFavoriteResume(i)
    \/ \E i \in 1..Len(calls) : saveHistoryResume(i)
    \/ \E i \in 1..Len(calls) : backendSave(i, TRUE)
    \/ \E i \in 1..Len(calls) : backendToggleFavorite(i)

SpecFull == Init /\ [][NextFull]_vars

\* Captures of texts and images, with and without white space around them.
NextKinds ==
    \/ \E ok \in BOOLEAN : LoadHistory(ok)
    \/ LoadShortcutKey(TRUE)
    \/ InitRender
    \/ Tick
    \/ CanCall(MaxInFlight) /\ \E content \in PaddedContents :
           addToHistory(content, 0)
    \/ \E i \in 1..Len(calls) : backendSave(i, TRUE)

SpecKinds == Init /\ [][NextKinds]_vars

\* The start and the captures: init() goes on after each of its awaits (the
\* calls it awaits settle), and the application is started again only once
\* it runs.
NextStartup ==
    \/ \E ok \in BOOLEAN : LoadHistory(ok)
    \/ \E ok \in BOOLEAN : LoadShortcutKey(ok)
    \/ InitRender
    \/ pc = "ready" /\ Restart
    \/ Tick
    \/ CanCall(MaxInFlight) /\ \E content \in TextContents : addToHistory(content, 0)
    \/ \E i \in 1..Len(calls) : backendSave(i, TRUE)

SpecStartup ==
    /\ Init
    /\ [][NextStartup]_vars
    /\ WF_vars(\E ok \in BOOLEAN : LoadHistory(ok))
    /\ WF_vars(\E ok \in BOOLEAN : LoadShortcutKey(ok))
    /\ WF_vars(InitRender)

\* Clicks on a list that shows items no longer stored: captures, clicks on
\* items and on their buttons with up to MaxRacing calls in flight, so that a
\* click can come before the render() that follows the call.
NextStale ==
    \/ LoadHistory(TRUE)
    \/ LoadShortcutKey(TRUE)
    \/ InitRender
    \/ Tick
    \/ CanCall(MaxRacing) /\ \E content \in TextContents : addToHistory(content, 0)
    \/ CanCall(MaxRacing) /\ \E id \in RenderedIdSet : ItemClick(id)
    \/ CanCall(MaxRacing) /\ \E id \in RenderedIdSet : deleteItem(id)
    \/ CanCall(MaxRacing) /\ \E id \in RenderedIdSet : toggleFavorite(id)
    \/ \E i \in 1..Len(calls) : toggleFavoriteResume(i)
    \/ \E i \in 1..Len(calls) : saveHistoryResume(i)
    \/ \E i \in 1..Len(calls) : backendSave(i, TRUE)
    \/ \E i \in 1..Len(calls) : backendToggleFavorite(i)

SpecStale == Init /\ [][NextStale]_vars

\* Captures and deletions with up to MaxRacing saves in flight; the back end
\* writes every save, in any order.
NextSaves ==
    \/ LoadHistory(TRUE)
    \/ LoadShortcutKey(TRUE)
    \/ InitRender
    \/ Tick
    \/ CanCall(MaxRacing) /\ \E content \in TextContents : addToHistory(content, 0)
    \/ CanCall(MaxRacing) /\ \E id \in RenderedIdSet : deleteItem(id)
    \/ \E i \in 1..Len(calls) : saveHistoryResume(i)
    \/ \E i \in 1..Len(calls) : backendSave(i, TRUE)

SpecSaves == Init /\ [][NextSaves]_vars

\* The shortcut, one saveShortcutKey() at a time: its registration at the
\* start, the dialog that changes it, and the answers of the plugin.
NextHotkey ==
    \/ \E ok \in BOOLEAN : LoadHistory(ok)
    \/ \E ok \in BOOLEAN : LoadShortcutKey(ok)
    \/ Restart
    \/ startListeningForShortcut
    \/ hideShortcutModal
    \/ rebinds = <<>> /\ \E e \in KeyEvents : handleKeyDownForShortcut(e)
    \/ rebinds = <<>> /\ resetShortcutToDefault
    \/ \E i \in 1..Len(rebinds), ok \in BOOLEAN : unregisterOldSettles(i, ok)
    \/ \E i \in 1..Len(rebinds) : delayEnds(i)
    \/ \E i \in 1..Len(rebinds), ok \in BOOLEAN : unregisterSettles(i, ok)
    \/ \E i \in 1..Len(rebinds), ok \in BOOLEAN : registerSettles(i, ok)
    \/ \E i \in 1..Len(rebinds) : saveShortcutKeyReturns(i)

SpecHotkey == Init /\ [][NextHotkey]_vars

\* The revision with the keyboard: captures, searches, keys and buttons.
NextNav ==
    \/ Tick
    \/ \E content \in NavContents : navAddToHistory(content)
    \/ \E id \in {navItems[k].id : k \in 1..Len(navItems)} : navDeleteItem(id)
    \/ navClearAllHistory
    \/ \E query \in Queries : navSearch(query)
    \/ navArrowDown
    \/ navArrowUp
    \/ navEnter
    \/ \E digit \in Digits : navDigit(digit)

SpecNav == Init /\ [][NextNav]_vars

\* Captures of every kind and clicks on items, the saves are written.
NextCopy ==
    \/ LoadHistory(TRUE)
    \/ LoadShortcutKey(TRUE)
    \/ InitRender
    \/ Tick
    \/ CanCall(MaxInFlight) /\ \E content \in Contents : addToHistory(content, 0)
    \/ CanCall(MaxInFlight) /\ \E id \in RenderedIdSet : ItemClick(id)
    \/ \E i \in 1..Len(calls) : backendSave(i, TRUE)

SpecCopy == Init /\ [][NextCopy]_vars

\* The calls to the back end, to the plugins and to the system, each with
\* the answers it can give: the start, one capture, the favourite button and
\* one change of the shortcut.
NextFaults ==
    \/ \E ok \in BOOLEAN : LoadHistory(ok)
    \/ \E p \in Platforms, ok \in BOOLEAN : LoadShortcutKeyOn(p, ok)
    \/ listenRejected
    \/ InitRender
    \/ CanCall(MaxInFlight) /\ \E content \in OneContent : addToHistory(content, 0)
    \/ CanCall(MaxInFlight) /\ \E id \in RenderedIdSet : toggleFavorite(id)
    \/ \E i \in 1..Len(calls) : toggleFavoriteResume(i)
    \/ \E i \in 1..Len(calls) : saveHistoryResume(i)
    \/ \E i \in 1..Len(calls), ok \in BOOLEAN : backendSave(i, ok)
    \/ \E i \in 1..Len(calls) : backendToggleFavorite(i)
    \/ startListeningForShortcut
    \/ rebinds = <<>> /\ \E e \in KeyEvents : handleKeyDownForShortcut(e)
    \/ \E i \in 1..Len(rebinds), ok \in BOOLEAN : unregisterOldSettles(i, ok)
    \/ \E i \in 1..Len(rebinds) : delayEnds(i)
    \/ \E i \in 1..Len(rebinds), ok \in BOOLEAN : unregisterSettles(i, ok)
    \/ \E i \in 1..Len(rebinds), ok \in BOOLEAN : registerSettles(i, ok)
    \/ \E i \in 1..Len(rebinds) : saveShortcutKeyReturns(i)

SpecFaults == Init /\ [][NextFaults]_vars

\* The start on every platform: the shortcut is loaded, changed in the
\* dialog, and loaded again at the next start.
NextPlatform ==
    \/ \E ok \in BOOLEAN : LoadHistory(ok)
    \/ \E p \in Platforms, ok \in BOOLEAN : LoadShortcutKeyOn(p, ok)
    \/ Restart
    \/ startListeningForShortcut
    \/ hideShortcutModal
    \/ rebinds = <<>> /\ \E e \in KeyEvents : handleKeyDownForShortcut(e)
    \/ \E i \in 1..Len(rebinds), ok \in BOOLEAN : unregisterOldSettles(i, ok)
    \/ \E i \in 1..Len(rebinds) : delayEnds(i)
    \/ \E i \in 1..Len(rebinds), ok \in BOOLEAN : unregisterSettles(i, ok)
    \/ \E i \in 1..Len(rebinds), ok \in BOOLEAN : registerSettles(i, ok)
    \/ \E i \in 1..Len(rebinds) : saveShortcutKeyReturns(i)

SpecPlatform == Init /\ [][NextPlatform]_vars

\* The dialog is used while saveShortcutKey() calls are in progress, up to
\* MaxRebinds of them; the plugin grants every call.
CanRebind == Len(rebinds) < MaxRebinds

NextRebindRace ==
    \/ LoadHistory(TRUE)
    \/ LoadShortcutKey(TRUE)
    \/ startListeningForShortcut
    \/ hideShortcutModal
    \/ CanRebind /\ \E e \in KeyEvents : handleKeyDownForShortcut(e)
    \/ CanRebind /\ resetShortcutToDefault
    \/ \E i \in 1..Len(rebinds) : unregisterOldSettles(i, TRUE)
    \/ \E i \in 1..Len(rebinds) : delayEnds(i)
    \/ \E i \in 1..Len(rebinds) : unregisterSettles(i, TRUE)
    \/ \E i \in 1..Len(rebinds) : registerSettles(i, TRUE)
    \/ \E i \in 1..Len(rebinds) : saveShortcutKeyReturns(i)

SpecRebindRace == Init /\ [][NextRebindRace]_vars

\* Triggers of the shortcut, while the dialog may register a shortcut anew;
\* the plugin grants every call.
CanTrigger == Len(invocations) < MaxInvocations

NextTrigger ==
    \/ LoadHistory(TRUE)
    \/ LoadShortcutKey(TRUE)
    \/ startListeningForShortcut
    \/ hideShortcutModal
    \/ rebinds = <<>> /\ \E e \in KeyEvents : handleKeyDownForShortcut(e)
    \/ rebinds = <<>> /\ resetShortcutToDefault
    \/ \E i \in 1..Len(rebinds) : unregisterOldSettles(i, TRUE)
    \/ \E i \in 1..Len(rebinds) : delayEnds(i)
    \/ \E i \in 1..Len(rebinds) : unregisterSettles(i, TRUE)
    \/ \E i \in 1..Len(rebinds) : registerSettles(i, TRUE)
    \/ \E i \in 1..Len(rebinds) : saveShortcutKeyReturns(i)
    \/ CanTrigger /\ \E key \in Keys : shortcutTriggered(key)
    \/ \E j \in 1..Len(invocations) : toggleAppVisibilityReturns(j)
    \/ \E j \in 1..Len(invocations) : cooldownEnds(j)

SpecTrigger == Init /\ [][NextTrigger]_vars

\* The same with the timers: the timer set by a callback fires.
SpecTriggerFair ==
    /\ Init
    /\ [][NextTrigger]_vars
    /\ \A key \in Keys :
           WF_vars(\E j \in 1..Len(invocations) :
                       /\ invocations[j].key = key
                       /\ invocations[j].current
                       /\ cooldownEnds(j))


(***************************************************************************)
(* Properties                                                              *)
(***************************************************************************)
Range(s) == {s[i] : i \in 1..Len(s)}

\* The comparison key of the duplicate rule: a text is compared trimmed, an
\* image by its first 200 characters.
keyOfContent(kind, content) ==
    IF kind = "image"
    THEN <<"image", substring0(content, ImagePrefixLen)>>
    ELSE <<"text", trim(content)>>

keyOfItem(item) == keyOfContent(item.item_type, item.content)

\* The key of a capture, whose kind is what the classifier says of it.
keyOfCapture(content) ==
    keyOfContent(IF isBase64Image(content) THEN "image" ELSE "text", content)

\* The step is addToHistory(content) and the capture is taken.
IsAcceptedIngest(content) ==
    /\ isAccepted(content, clipboardHistory)
    /\ \E dt \in {0, 1} : addToHistory(content, dt)

\* The step is addToHistory(content), taken or not.
IsIngest(content) == \E dt \in {0, 1} : addToHistory(content, dt)

\* C1: after any sequence of captures from an empty history, the history
\* holds at most maxHistorySize items.
C1_LengthBounded == Len(clipboardHistory) <= maxHistorySize

\* C1 witness: a capture has just been added to a full history, and the item
\* at the tail of the history saved before is gone.
C1_Evicted ==
    /\ lastOp = Op("addToHistory", lastOp.arg, TRUE)
    /\ Len(clipboardHistory) = maxHistorySize
    /\ Len(persisted) = maxHistorySize
    /\ persisted[maxHistorySize] \notin Range(clipboardHistory)
    /\ \A i \in 1..(maxHistorySize - 1) :
           clipboardHistory[i + 1] = persisted[i]

\* C2: no two stored items have the same kind and the same comparison key.
C2_NoTwoWithSameKey ==
    \A i, j \in 1..Len(clipboardHistory) :
        i # j => keyOfItem(clipboardHistory[i]) # keyOfItem(clipboardHistory[j])

\* C3: a capture x that is not empty, delivered twice in a row: the second
\* delivery is rejected and changes nothing.
C3_SecondIngestRejected ==
    [][\A x \in Contents :
          (/\ ~isEmptyCapture(x)
           /\ lastOp.op = "addToHistory"
           /\ lastOp.arg = x
           /\ IsIngest(x))
          => /\ clipboardHistory' = clipboardHistory
             /\ calls' = calls]_vars

\* C4: a capture that compares equal to a stored item at any position, the
\* front or behind it, is rejected.
C4_RejectedAtAnyPosition ==
    [][\A x \in Contents :
          (/\ IsIngest(x)
           /\ \E i \in 2..Len(clipboardHistory) :
                  keyOfItem(clipboardHistory[i]) = keyOfCapture(x))
          => clipboardHistory' = clipboardHistory]_vars

\* C5: a capture that is taken becomes the first item, not a favourite; the
\* items stored before follow it in the order they had, cut at the tail
\* when the history would grow beyond maxHistorySize.
C5_IngestAtFrontOthersKeepOrder ==
    [][\A x \in AllContents :
          IsAcceptedIngest(x)
          => /\ clipboardHistory'[1].content = trim(x)
             /\ ~clipboardHistory'[1].is_favorite
             /\ Tail(clipboardHistory')
                    = slice0(clipboardHistory, maxHistorySize - 1)]_vars

\* The step is the click on the item with this id, which is stored.
IsPromote(id) == ItemClick(id) /\ findIndex(clipboardHistory, id) > 0

\* C6: moveItemToTop(id) of an item behind the front leaves it at the front
\* and the others in their order; of the front item it changes nothing and
\* issues no save.
C6_PromoteToFront ==
    [][\A id \in RenderedIdSet :
          IsPromote(id)
          => LET index == findIndex(clipboardHistory, id)
             IN  IF index > 1
                 THEN /\ clipboardHistory'[1] = clipboardHistory[index]
                      /\ Tail(clipboardHistory')
                             = RemoveAt(clipboardHistory, index)
                 ELSE /\ clipboardHistory' = clipboardHistory
                      /\ calls' = calls]_vars

\* C7: with the history [E1 (no favourite), E2 (favourite)], the click on E2
\* gives the history [E2, E1], the view of all [E2, E1] and the view of the
\* favourites [E2], whatever the timestamps.
C7_PromotionVisibleInViewAll ==
    [][\A id \in RenderedIdSet :
          (/\ IsPromote(id)
           /\ Len(clipboardHistory) = 2
           /\ ~clipboardHistory[1].is_favorite
           /\ clipboardHistory[2].is_favorite
           /\ clipboardHistory[1].id # id
           /\ clipboardHistory[2].id = id)
          => LET E1 == clipboardHistory[1]
                 E2 == clipboardHistory[2]
             IN  /\ clipboardHistory' = <<E2, E1>>
                 /\ getFilteredItems(clipboardHistory', "all") = <<E2, E1>>
                 /\ getFilteredItems(clipboardHistory', "favorites")
                        = <<E2>>]_vars

\* How often an item is in a sequence.
Count(s, e) == Cardinality({i \in 1..Len(s) : s[i] = e})

\* C8: the view of the favourites holds exactly the stored favourites, the
\* newest first, whatever the order of the history.
C8_FavoritesViewSorted ==
    LET view == getFilteredItems(clipboardHistory, "favorites")
    IN  /\ \A i \in 1..Len(view) : view[i].is_favorite
        /\ \A e \in Range(clipboardHistory) :
               Count(view, e) = IF e.is_favorite
                                THEN Count(clipboardHistory, e)
                                ELSE 0
        /\ \A i, j \in 1..Len(view) :
               i < j => view[i].timestamp >= view[j].timestamp

\* C8 witness: an older favourite has been moved in front of a newer one.
C8_FavoritesOutOfOrderInHistory ==
    /\ lastOp.op = "moveItemToTop"
    /\ lastOp.done
    /\ Len(clipboardHistory) >= 2
    /\ clipboardHistory[1].is_favorite
    /\ clipboardHistory[2].is_favorite
    /\ clipboardHistory[1].timestamp < clipboardHistory[2].timestamp

\* C10: when toggleFavorite(id) has its answer, the stored item has the
\* negation of the flag it had when the call was made.
C10_ToggleNegates ==
    [][\A i \in 1..Len(calls) :
          (/\ toggleFavoriteResume(i)
           /\ findIndex(clipboardHistory, calls[i].id) > 0)
          => favoriteOf(clipboardHistory', calls[i].id) = ~calls[i].was]_vars

\* C9: toggleFavorite(id) called again right after a toggleFavorite(id)
\* has ended: when the second has its answer, the item has the flag it had
\* before the first, and nothing else of the history has changed.
C9_ToggleTwiceRestores ==
    [][\A i \in 1..Len(calls) :
          (/\ toggleFavoriteResume(i)
           /\ calls[i].prior # "none"
           /\ findIndex(clipboardHistory, calls[i].id) > 0)
          => LET index == findIndex(clipboardHistory, calls[i].id)
             IN  /\ clipboardHistory'[index].is_favorite
                        = (calls[i].prior = "T")
                 /\ clipboardHistory' =
                        [clipboardHistory EXCEPT ![index].is_favorite =
                             clipboardHistory'[index].is_favorite]]_vars

\* C11: a saveShortcutKey() that ran alone, began with a registered key
\* other than the new one and had every call of the plugin granted, whether
\* it came from a keydown or from the reset: the old key was unregistered,
\* and when it returns the new key is registered, the old one is not,
\* this.shortcutKey is the new key and so is the key in localStorage.
C11_RebindReplacesKey ==
    [][\A i \in 1..Len(rebinds) :
          (/\ saveShortcutKeyReturns(i)
           /\ rebinds[i].alone
           /\ rebinds[i].fromBound
           /\ rebinds[i].from # fixMeta(rebinds[i].key)
           /\ ~osFailed)
          => /\ rebinds[i].unregistered = "ok"
             /\ fixMeta(rebinds[i].key) \in registered'
             /\ rebinds[i].from \notin registered'
             /\ shortcutKey' = fixMeta(rebinds[i].key)
             /\ clipboxShortcut' = fixMeta(rebinds[i].key)]_vars

\* What saveShortcutKey() gives its caller: it is declared Promise<void> and
\* has no return statement, whatever register() answered.
saveShortcutKeyResult(rebind) == undefined

\* C12: when register() of the new key has failed and the key is not
\* registered, this.shortcutKey does not name the new key after the return,
\* the caller gets a value that differs from the one of a success, and the
\* old key is not registered again.
C12_FailedRegisterLeavesUnbound ==
    [][\A i \in 1..Len(rebinds) :
          (/\ saveShortcutKeyReturns(i)
           /\ rebinds[i].alone
           /\ rebinds[i].unregistered = "ok"
           /\ ~rebinds[i].registerOk
           /\ fixMeta(rebinds[i].key) \notin registered)
          => /\ shortcutKey' # fixMeta(rebinds[i].key)
             /\ saveShortcutKeyResult(rebinds[i])
                    # saveShortcutKeyResult([rebinds[i] EXCEPT !.registerOk = TRUE])
             /\ rebinds[i].old \notin registered']_vars

\* The saveShortcutKey() calls that have called the plugin or written
\* localStorage and have not returned.
RebindsRunning ==
    {i \in 1..Len(rebinds) :
        rebinds[i].pc \in {"unregisterOld", "delay", "unregister", "register",
                           "return"}}

\* C13: a keydown or a reset that comes while a saveShortcutKey() is running
\* does not start a second one beside it: at most one is running at a time.
C13_RebindsDoNotInterleave == Cardinality(RebindsRunning) <= 1

\* C14: once the listeners are set up and while no saveShortcutKey() is in
\* progress, at most one key is registered, and it is this.shortcutKey
\* (stated for the runs in which the plugin has granted every call).
C14_OnlyCurrentKeyRegistered ==
    (/\ Listening
     /\ rebinds = <<>>
     /\ ~osFailed)
    => /\ Cardinality(registered) <= 1
       /\ registered \subseteq {shortcutKey}

\* C15: a trigger of a key that comes while a run started by an earlier
\* trigger of that key is still toggling or in its cooldown starts no run and
\* makes no call of toggle_window_visibility.
C15_TriggerDroppedWhileBusy ==
    [][\A key \in Keys :
          (/\ shortcutTriggered(key)
           /\ \E j \in 1..Len(invocations) : invocations[j].key = key)
          => invocations' = invocations]_vars

\* C16: once every save that was called has been written, the back end
\* holds the history of the save that was called last.
C16_LastIssuedSaveWins ==
    (/\ issued # <<>>
     /\ \A i \in 1..Len(calls) : calls[i].kind # "save")
    => persisted = issued[1]

\* C17: from the moment loadHistory() has answered, whichever handlers have
\* run and whichever history the load gave, the history holds at most
\* maxHistorySize items.
C17_LengthBoundedAfterStartup ==
    pc # "loading" => Len(clipboardHistory) <= maxHistorySize

\* C17 witness: after a new start, loadHistory() has given a history of
\* maxHistorySize items.
C17_FullHistoryLoaded ==
    /\ restarts > 0
    /\ lastOp = Op("loadHistory", "", TRUE)
    /\ Len(clipboardHistory) = maxHistorySize

\* C18: no two stored items have the same id.
C18_IdsDiffer ==
    \A i, j \in 1..Len(clipboardHistory) :
        i # j => clipboardHistory[i].id # clipboardHistory[j].id

\* C19: a capture that is empty, only white space, or equal under the
\* duplicate rule to a stored item changes neither the history nor the list
\* shown, and no save is called.
C19_RejectedIngestChangesNothing ==
    [][\A x \in Contents :
          (/\ IsIngest(x)
           /\ \/ isEmptyCapture(x)
              \/ \E item \in Range(clipboardHistory) :
                     keyOfItem(item) = keyOfCapture(x))
          => /\ clipboardHistory' = clipboardHistory
             /\ rendered' = rendered
             /\ calls' = calls
             /\ issued' = issued]_vars

\* C20: deleteItem(id) of a stored id removes the one item with that id; the
\* other items stay as they are, in their order.
C20_DeleteRemovesOne ==
    [][\A id \in RenderedIdSet :
          (/\ deleteItem(id)
           /\ findIndex(clipboardHistory, id) > 0)
          => clipboardHistory'
                 = RemoveAt(clipboardHistory, findIndex(clipboardHistory, id))]_vars

\* C21: a click on an item, on its delete button or on its favourite button
\* that carries an id no longer stored, and the answer to a toggleFavorite
\* of such an id, leave the history as it is.
C21_UnknownIdChangesNothing ==
    [][/\ \A id \in RenderedIdSet :
              (/\ findIndex(clipboardHistory, id) = 0
               /\ (deleteItem(id) \/ ItemClick(id) \/ toggleFavorite(id)))
              => clipboardHistory' = clipboardHistory
       /\ \A i \in 1..Len(calls) :
              (/\ findIndex(clipboardHistory, calls[i].id) = 0
               /\ toggleFavoriteResume(i))
              => clipboardHistory' = clipboardHistory]_vars

\* C21 witness: deleteItem has run with an id that was not stored, on a
\* history that holds items.
C21_DeleteOfUnknownId ==
    /\ lastOp.op = "deleteItem"
    /\ ~lastOp.done
    /\ Len(clipboardHistory) > 0

\* C22: clearAllHistory() with the confirmation given empties the history,
\* favourites too, and saves the empty history; with the confirmation
\* refused it changes nothing and calls no save.
C22_ClearAllEmptiesOrLeaves ==
    [][/\ clearAllHistory(TRUE)
          => /\ clipboardHistory' = <<>>
             /\ issued' = <<clipboardHistory'>>
             /\ Len(calls') = Len(calls) + 1
       /\ clearAllHistory(FALSE)
          => /\ clipboardHistory' = clipboardHistory
             /\ calls' = calls
             /\ issued' = issued]_vars

\* C22 witness: the history has just been cleared while a favourite was
\* stored: the back end has not yet written the empty history and still
\* holds the favourite that the list shows.
C22_ClearedWithFavorite ==
    /\ lastOp = Op("clearAllHistory", "", TRUE)
    /\ clipboardHistory = <<>>
    /\ \E k \in 1..Len(persisted) :
           /\ persisted[k].is_favorite
           /\ persisted[k].id \in RenderedIdSet
    /\ \E i \in 1..Len(calls) : calls[i].kind = "save" /\ calls[i].history = <<>>

\* C23: a save that fails changes nothing of the history in memory, neither
\* when the call fails nor when the handler that awaited it goes on and
\* renders; a capture accepted while the back end holds another history
\* is put in front of the items in memory.
C23_FailedSaveKeepsHistory ==
    [][/\ \A i \in 1..Len(calls) :
              /\ backendSave(i, FALSE)
                 => /\ clipboardHistory' = clipboardHistory
                    /\ persisted' = persisted
              /\ (/\ calls[i].kind = "saved"
                  /\ ~calls[i].ok
                  /\ saveHistoryResume(i))
                 => /\ clipboardHistory' = clipboardHistory
                    /\ rendered' = RenderedIds(getFilteredItems(clipboardHistory,
                                                                currentFilter))
       /\ \A content \in TextContents :
              (/\ persisted # clipboardHistory
               /\ isAccepted(content, clipboardHistory)
               /\ addToHistory(content, 0))
              => /\ Len(clipboardHistory')
                        = Min(Len(clipboardHistory) + 1, maxHistorySize)
                 /\ \A k \in 1..Len(clipboardHistory') :
                        \/ clipboardHistory'[k] \in Range(clipboardHistory)
                        \/ clipboardHistory'[k].content = trim(content)]_vars

\* C23 witness: the save of the first capture failed, the back end holds
\* nothing, and a second capture has been put in front of the first.
C23_IngestAfterFailedSave ==
    /\ lastOp = Op("addToHistory", lastOp.arg, TRUE)
    /\ Len(clipboardHistory) = 2
    /\ persisted = <<>>
    /\ restarts = 0
    /\ Len(calls) = 1
    /\ calls[1].kind = "save"
    /\ calls[1].history = clipboardHistory

\* C24: when loadHistory() fails or gets nothing the history is empty, init()
\* goes on until the listener of 'clipboard-changed' is set and the list is
\* rendered, and a capture that is not empty is then stored.
C24_StartupCompletesAfterFailedLoad ==
    /\ [][/\ LoadHistory(FALSE) => clipboardHistory' = <<>>
          /\ \A content \in TextContents :
                 (/\ clipboardHistory = <<>>
                  /\ ~isEmptyCapture(content)
                  /\ addToHistory(content, 0))
                 => /\ Len(clipboardHistory') = 1
                    /\ clipboardHistory'[1].content = trim(content)]_vars
    /\ (lastOp = Op("loadHistory", "", FALSE)) ~> (pc = "ready")

\* C24 witness: the application was started again while the back end held
\* two items, the load failed, and the capture that came then is the only
\* item of the history.
C24_IngestAfterFailedLoad ==
    /\ restarts = 1
    /\ pc = "ready"
    /\ Len(persisted) >= 2
    /\ lastOp = Op("addToHistory", lastOp.arg, TRUE)
    /\ Len(clipboardHistory) = 1
    /\ Len(calls) = 1

\* C25: every stored item has the type "image" exactly when its stored
\* content starts with 'data:image/' and contains 'base64,', and "text"
\* otherwise.
C25_KindFollowsStoredContent ==
    \A k \in 1..Len(clipboardHistory) :
        /\ clipboardHistory[k].item_type \in {"image", "text"}
        /\ clipboardHistory[k].item_type = "image"
               <=> isBase64Image(clipboardHistory[k].content)

\* C26: a capture is never rejected because of a stored item of the other
\* type: an image capture because of a text item, or a text capture because
\* of an image item.
C26_NoDuplicateAcrossKinds ==
    [][\A content \in PaddedContents :
           (/\ ~isEmptyCapture(content)
            /\ addToHistory(content, 0))
           => \A k \in 1..Len(clipboardHistory) :
                  isDuplicateOf(content, clipboardHistory[k])
                  => clipboardHistory[k].item_type
                         = newItem(content, now, now).item_type]_vars

\* C27: but for the start, every item of the history after a step was in it
\* before the step with the same id, content, timestamp, item_type,
\* image_path and is_favorite, except the item a capture adds and the item
\* whose is_favorite the answer to toggleFavorite(id) changes, which has
\* that id and is otherwise as it was.
C27_FieldsOfStoredItemsFixed ==
    [][pc # "loading"
       => \A x \in Range(clipboardHistory') :
              LET before == Count(clipboardHistory, x)
                  after == Count(clipboardHistory', x)
                  flipped == [x EXCEPT !.is_favorite = ~x.is_favorite]
              IN  \/ after <= before
                  \/ /\ after = before + 1
                     /\ \E content \in AllContents :
                            /\ IsAcceptedIngest(content)
                            /\ \E dt \in {0, 1} :
                                   x = newItem(content, now, now + dt)
                  \/ /\ after = before + 1
                     /\ \E i \in 1..Len(calls) :
                            /\ toggleFavoriteResume(i)
                            /\ calls[i].id = x.id
                     /\ Count(clipboardHistory', flipped)
                            = Count(clipboardHistory, flipped) - 1]_vars

\* C27 witness: an item stored before the present millisecond has just been
\* moved by a click, and an item of the history is a favourite.
C27_OldItemPromoted ==
    /\ lastOp = Op("moveItemToTop", lastOp.arg, TRUE)
    /\ \E k \in 1..Len(clipboardHistory) :
           /\ clipboardHistory[k].id = lastOp.arg
           /\ clipboardHistory[k].timestamp < now
    /\ \E k \in 1..Len(clipboardHistory) : clipboardHistory[k].is_favorite

\* C28: but for the start, a step that changes the history calls
\* saveHistory() with the history as the step leaves it: no step changes the
\* history without a save of what it has become.
C28_EveryChangeIsSaved ==
    [][(/\ pc # "loading"
        /\ pc' # "loading"
        /\ clipboardHistory' # clipboardHistory)
       => /\ calls' # calls
          /\ Len(calls') > 0
          /\ calls'[Len(calls')].kind = "save"
          /\ calls'[Len(calls')].history = clipboardHistory'
          /\ issued' = <<clipboardHistory'>>]_vars

\* C29: render() reads the history and does not change it: the steps that
\* only render leave the history as it was, and a capture or a click on an
\* item leaves it as the handler made it before it rendered.
C29_RenderLeavesHistory ==
    [][/\ (\/ InitRender
           \/ \E filter \in Filters : setFilter(filter)
           \/ \E i \in 1..Len(calls) : saveHistoryResume(i))
          => clipboardHistory' = clipboardHistory
       /\ \A content \in AllContents :
              IsAcceptedIngest(content)
              => \E dt \in {0, 1} :
                     clipboardHistory'
                         = unshiftAndLimit(newItem(content, now, now + dt),
                                           clipboardHistory)
       /\ \A id \in RenderedIdSet :
              (ItemClick(id) /\ findIndex(clipboardHistory, id) > 1)
              => clipboardHistory'
                     = spliceToFront(clipboardHistory,
                                     findIndex(clipboardHistory, id))]_vars

\* C30: an item moved to the front by a click is not the next to go: the
\* capture accepted next after moveItemToTop(id) leaves an item with that id
\* in the history (the first of the maxHistorySize - 1 captures that an item
\* at the front outlasts).
C30_PromotedOutlastsNextIngest ==
    [][\A content \in AllContents :
           (/\ maxHistorySize > 1
            /\ lastOp = Op("moveItemToTop", lastOp.arg, TRUE)
            /\ IsAcceptedIngest(content))
           => findIndex(clipboardHistory', lastOp.arg) > 0]_vars

\* C31: once the call of toggleAppVisibility() made for a trigger of a key
\* has returned, isShortcutProcessing of that key becomes false again, and
\* a trigger that comes while it is false starts a run.
C31_GuardReleased ==
    /\ \A key \in Keys :
           (\E j \in 1..Len(invocations) :
                /\ invocations[j].key = key
                /\ invocations[j].current
                /\ invocations[j].st # "toggling")
           ~> ~isShortcutProcessing(key)
    /\ [][\A key \in Keys :
              (shortcutTriggered(key) /\ ~isShortcutProcessing(key))
              => /\ Len(invocations') = Len(invocations) + 1
                 /\ isShortcutProcessing(key)']_vars

\* C31 witness: the call made for a trigger has returned and the timer that
\* clears isShortcutProcessing is set.
C31_CooldownRunning ==
    \E j \in 1..Len(invocations) :
        /\ invocations[j].current
        /\ invocations[j].st = "cooldown"
        /\ invocations[j].key = shortcutKey

\* C32: a capture that is an image is rejected exactly when its first 200
\* characters are those of a stored image: otherwise it is stored and
\* saved, and when rejected nothing changes.
C32_ImagesComparedByPrefix ==
    [][\A content \in Contents :
           (isBase64Image(content) /\ IsIngest(content))
           => IF \E k \in 1..Len(clipboardHistory) :
                     /\ isBase64Image(clipboardHistory[k].content)
                     /\ substring0(clipboardHistory[k].content, ImagePrefixLen)
                            = substring0(content, ImagePrefixLen)
              THEN /\ clipboardHistory' = clipboardHistory
                   /\ calls' = calls
              ELSE /\ Len(calls') = Len(calls) + 1
                   /\ \E k \in 1..Len(clipboardHistory') :
                          clipboardHistory'[k].content = trim(content)]_vars

\* C32 witness: with two images stored that differ within their first 200
\* characters, a capture that differs from one of them in character 201
\* only has been rejected.
C32_ImageRejectedByPrefix ==
    /\ lastOp = Op("addToHistory", ImgA2, FALSE)
    /\ \E k \in 1..Len(clipboardHistory) : clipboardHistory[k].content = ImgA
    /\ \E k \in 1..Len(clipboardHistory) : clipboardHistory[k].content = ImgB
    /\ Len(ImgA) > ImagePrefixLen

\* C33: a capture is handled only once init() has set the listener, which
\* is after loadHistory() has answered, and the listener stays until the
\* application is started again; so loadHistory() writes its answer into a
\* history that holds no capture, and a capture that is handled is handled
\* once: one item more at most, and one save when it is accepted.
C33_SubscribedOnceAfterLoad ==
    [][/\ (\E ok \in BOOLEAN : LoadHistory(ok))
          => clipboardHistory = <<>> /\ calls = <<>>
       /\ \A content \in TextContents :
              addToHistory(content, 0)
              => /\ pc \in {"monitor", "ready"}
                 /\ pc' \in {"monitor", "ready"}
                 /\ Len(clipboardHistory') <= Len(clipboardHistory) + 1
                 /\ Len(calls') <= Len(calls) + 1
                 /\ isAccepted(content, clipboardHistory)
                        => Len(calls') = Len(calls) + 1
       /\ (pc \in {"monitor", "ready"} /\ pc' \notin {"monitor", "ready"})
          => Restart]_vars

\* C33 witness: after a new start the history that was loaded is still
\* there, and a capture has been put in front of it.
C33_IngestOnLoadedHistory ==
    /\ restarts = 1
    /\ pc = "ready"
    /\ lastOp = Op("addToHistory", lastOp.arg, TRUE)
    /\ Len(clipboardHistory) >= 2
    /\ Len(calls) = 1
    /\ persisted = SubSeq(clipboardHistory, 2, Len(clipboardHistory))

\* C34: loadShortcutKey() makes this.shortcutKey the key saved in
\* localStorage when there is one, and otherwise 'Cmd+Control+v' on macOS
\* and when platform() is rejected, 'Ctrl+Alt+v' on the other platforms; it
\* asks the plugin to register that key and no other, and leaves the saved
\* key as it is.
C34_StartupKey ==
    [][\A p \in Platforms, ok \in BOOLEAN :
           LoadShortcutKeyOn(p, ok)
           => LET key == IF clipboxShortcut # "" THEN clipboxShortcut
                         ELSE IF p \in {"macos", PlatformFails}
                              THEN "Cmd+Control+v"
                              ELSE "Ctrl+Alt+v"
              IN  /\ shortcutKey' = key
                  /\ registered' \subseteq registered \cup {key}
                  /\ ok => key \in registered'
                  /\ ~ok => registered' = registered /\ osFailed'
                  /\ clipboxShortcut' = clipboxShortcut]_vars

\* C34 witness: the application has been started again with a saved key that
\* is not a default, and that key is this.shortcutKey and is registered.
C34_SavedKeyLoaded ==
    /\ restarts = 1
    /\ pc = "monitor"
    /\ clipboxShortcut \notin {"", "Cmd+Control+v", "Ctrl+Alt+v"}
    /\ shortcutKey = clipboxShortcut
    /\ registered = {shortcutKey}

\* C35: no call to the back end, to a plugin or to the system is rejected
\* without a handler that catches the rejection.
C35_NoUnhandledRejection == ~unhandled

\* C36: in the first run of the application, when init() has ended, no call
\* to the back end is in flight and every save was written, the back end
\* holds the history that is in memory: the same items in the same order
\* with the same is_favorite.
C36_PersistedEqualsHistory ==
    (pc = "ready" /\ restarts = 0 /\ calls = <<>>)
    => persisted = clipboardHistory

\* C37: once the application runs, when no saveShortcutKey() is in progress
\* and localStorage holds a key, that key is this.shortcutKey and the plugin
\* holds it.
C37_SavedKeyIsBoundKey ==
    (/\ pc \in {"monitor", "ready"}
     /\ rebinds = <<>>
     /\ clipboxShortcut # "")
    => /\ shortcutKey = clipboxShortcut
       /\ shortcutKey \in registered

\* C38: after a click on a stored item, the capture that delivers the
\* content of that item is rejected: the history and its length stay as they
\* are and no save is called.
C38_CopyAddsNoItem ==
    [][\A content \in Contents :
           LET index == findIndex(clipboardHistory, lastOp.arg)
           IN  (/\ lastOp.op = "moveItemToTop"
                /\ index > 0
                /\ content = captureOfCopy(clipboardHistory[index])
                /\ addToHistory(content, 0))
               => /\ clipboardHistory' = clipboardHistory
                  /\ Len(clipboardHistory') = Len(clipboardHistory)
                  /\ calls' = calls]_vars

\* C38 witness: an item behind the front was clicked and the save of the
\* history with that item at the front was written; the capture of its
\* content has been rejected.
C38_CopiedItemCapturedAgain ==
    /\ lastOp.op = "addToHistory"
    /\ ~lastOp.done
    /\ calls = <<>>
    /\ Len(clipboardHistory) >= 2
    /\ persisted # clipboardHistory
    /\ persisted[1].content = lastOp.arg
    /\ \E k \in 2..Len(clipboardHistory) :
           clipboardHistory[k] = persisted[1]

\* C39: in the revision with the keyboard, whenever an element is shown,
\* selectedIndex is the position of a shown element:
\* 0 <= selectedIndex < getVisibleItems().length.
C39_SelectedIndexInRange ==
    Len(getVisibleItems(navItems)) > 0
    => /\ 0 <= selectedIndex
       /\ selectedIndex < Len(getVisibleItems(navItems))

TypeOK ==
    /\ currentFilter \in Filters
    /\ pc \in {"loading", "shortcut", "monitor", "ready"}
    /\ now \in 1..MaxTime

====
